---- MODULE Spec2Model ----
(***************************************************************************)
(* Model of src/parser.py: EngeeBlockDocumentationDownloader.               *)
(*                                                                         *)
(* Text is a sequence of tokens.  Each token stands for one fixed piece of *)
(* a Python str (a marker phrase in one spelling, a delimiter, a filler    *)
(* character); substring search, rfind, slicing and lower() work on the    *)
(* token sequence exactly as the str methods work on characters.           *)
(*                                                                         *)
(*   "add"   дополнительные возможности     "Add"  the same, not lower-case*)
(*   "add-"  дополнительные-возможности                                    *)
(*   "ex"    примеры                        "Ex"   Примеры                 *)
(*   "see"   смотрите также                 "See"  Смотрите также          *)
(*   "see-"  смотрите-также                                                *)
(*   "#"     the character '#'              "x"    any other character     *)
(*   "svg("  [SVG Image](data:image/svg+xml;base64,                        *)
(*   ")"     the character ')'                                             *)
(*   "PIL"   Путь в библиотеке              "pil"  путь в библиотеке       *)
(*   ":<br>" the characters ':<br>'         "|"    the character '|'       *)
(*   "/"     the character '/'              " ", "\n"  white space         *)
(*   "Interfaces", "interfaces", "ritm", "Basic", "Sum", ...  words        *)
(***************************************************************************)
EXTENDS Integers, Sequences, FiniteSets, TLC

VARIABLES
    markdown_text,  \* pretiffy_data: the argument of the first call
    once,           \* pretiffy_data(markdown_text)
    twice,          \* pretiffy_data(pretiffy_data(markdown_text))
    tpc,            \* "input" -> "once" -> "twice"; "off" in a crawl
    index,          \* the index page as the server answers: status, whether it has
                    \* the article, and the anchors of its first article, in order
    raw_links,      \* self.__raw_links
    blocked_libs,   \* self.__blocked_libs
    parsed,         \* what parse_links returned ("none" before it ran)
    mainPc,         \* main: "start" -> "parsed" -> "gather" -> "done" | "crashed"
    outcome,        \* per task: "get", "read", "true", "false", "raised", "cancelled"
    exc,            \* per task: the exception that left the task, "none" otherwise
    stages,         \* per task: the stages of the pipeline it has passed, in order
    wfail,          \* per task: the open() that failed: "none", "json" or "md"
    fs,             \* the files under documentation/: name, data, the task that wrote it
    summary,        \* what main printed: successes and total, "none" before
    md_in,          \* the extractor and writer on their own: the Markdown handed in
    metadata_out,   \* __get_block_metadata(md_in)
    saved_out,      \* __save_md on md_in as the converter's output, empty directory
    mpc             \* "input" -> "extracted" -> "saved"; "off" otherwise

tvars == <<markdown_text, once, twice, tpc>>

ovars == <<index, raw_links, blocked_libs, parsed, mainPc, outcome, exc, stages,
           wfail, fs, summary>>

mvars == <<md_in, metadata_out, saved_out, mpc>>

vars == <<tvars, ovars, mvars>>

\* Longest text drawn as an input of pretiffy_data.
MaxLen == 3

Alphabet ==
    {"#", "add", "Add", "add-", "ex", "Ex", "see", "See", "see-", "x", "svg(", ")"}

Texts == UNION {[1..n -> Alphabet] : n \in 0..MaxLen}

----------------------------------------------------------------------------
(* str helpers *)

\* str.lower() on one token
LowerTok(c) ==
    CASE c = "Add" -> "add"
      [] c = "Ex"  -> "ex"
      [] c = "See" -> "see"
      [] c = "PIL" -> "pil"
      [] c = "Interfaces" -> "interfaces"
      [] c = "Basic" -> "basic"
      [] c = "Sum" -> "sum"
      [] c = "Gain" -> "gain"
      [] c = "Can" -> "can"
      [] OTHER     -> c

\* str.lower()
lower(t) == [i \in 1..Len(t) |-> LowerTok(t[i])]

\* 0-based start positions of the occurrences of w in t
Occurrences(t, w) ==
    {i \in 0..(Len(t) - Len(w)) : SubSeq(t, i + 1, i + Len(w)) = w}

\* w in t
Contains(t, w) == Occurrences(t, w) # {}

SetMax(S) == CHOOSE m \in S : \A n \in S : n <= m

SetMin(S) == CHOOSE m \in S : \A n \in S : m <= n

\* str.rfind: the start of the last occurrence, -1 when there is none
rfind(t, w) == IF Occurrences(t, w) = {} THEN -1 ELSE SetMax(Occurrences(t, w))

\* t[:cursor] for cursor >= 0
Prefix(t, cursor) == SubSeq(t, 1, cursor)

\* t[:cursor] as Python slices: a negative cursor counts from the end
Slice(t, cursor) ==
    IF cursor >= 0 THEN SubSeq(t, 1, cursor) ELSE SubSeq(t, 1, Len(t) + cursor)

----------------------------------------------------------------------------
(* pretiffy_data *)

TARGET_WORDS ==
    << <<"#", "add-">>, <<"add">>, <<"#", "ex">>, <<"ex">>, <<"#", "see-">>, <<"see">> >>

\* removing_pattern matched at position i (1-based): the position of the
\* closing ')' of the match, 0 when the pattern does not match at i.
\* [^)]+ takes at least one token and stops before the first ')'.
SvgMatchEnd(t, i) ==
    IF /\ i + 2 <= Len(t)
       /\ t[i] = "svg("
       /\ t[i + 1] # ")"
       /\ \E j \in (i + 2)..Len(t) : t[j] = ")"
    THEN SetMin({j \in (i + 2)..Len(t) : t[j] = ")"})
    ELSE 0

RECURSIVE re_sub_from(_, _)
\* re.sub(removing_pattern, "", t) scanning from position i: leftmost,
\* non-overlapping matches are dropped
re_sub_from(t, i) ==
    IF i > Len(t) THEN <<>>
    ELSE IF SvgMatchEnd(t, i) # 0 THEN re_sub_from(t, SvgMatchEnd(t, i) + 1)
    ELSE <<t[i]>> \o re_sub_from(t, i + 1)

re_sub(t) == re_sub_from(t, 1)

\* the loop body without the cursor test
TruncateStepNoCursorTest(clean_text, word) ==
    IF Contains(lower(clean_text), word)
    THEN [cut |-> TRUE, text |-> Slice(clean_text, rfind(clean_text, word))]
    ELSE [cut |-> FALSE, text |-> clean_text]

\* one iteration of the loop over TARGET_WORDS: whether it returns, and what
TruncateStep(clean_text, word) ==
    IF Contains(lower(clean_text), word) /\ rfind(clean_text, word) # -1
    THEN [cut |-> TRUE, text |-> Prefix(clean_text, rfind(clean_text, word))]
    ELSE [cut |-> FALSE, text |-> clean_text]

RECURSIVE TruncateFrom(_, _)
\* the loop over TARGET_WORDS from index k, and the final return
TruncateFrom(clean_text, k) ==
    IF k > Len(TARGET_WORDS) THEN clean_text
    ELSE IF TruncateStep(clean_text, TARGET_WORDS[k]).cut
         THEN TruncateStep(clean_text, TARGET_WORDS[k]).text
         ELSE TruncateFrom(clean_text, k + 1)

pretiffy_data(t) == TruncateFrom(re_sub(t), 1)

----------------------------------------------------------------------------
(* Metadata extractor, persistence writer, page validator *)

IsSpace(c) == c \in {" ", "\n"}

RECURSIVE lstrip(_)
lstrip(t) == IF t # <<>> /\ IsSpace(Head(t)) THEN lstrip(Tail(t)) ELSE t

RECURSIVE rstrip(_)
rstrip(t) ==
    IF t # <<>> /\ IsSpace(t[Len(t)]) THEN rstrip(SubSeq(t, 1, Len(t) - 1)) ELSE t

\* str.strip()
strip(t) == rstrip(lstrip(t))

\* t.replace(old, new) for one-character old; new = "" removes
RECURSIVE replace(_, _, _)
replace(t, old, new) ==
    IF t = <<>> THEN <<>>
    ELSE (IF Head(t) = old THEN (IF new = "" THEN <<>> ELSE <<new>>) ELSE <<Head(t)>>)
         \o replace(Tail(t), old, new)

\* t.split("\n")[0]
FirstLine(t) ==
    IF \E i \in 1..Len(t) : t[i] = "\n"
    THEN SubSeq(t, 1, SetMin({i \in 1..Len(t) : t[i] = "\n"}) - 1)
    ELSE t

RECURSIVE SkipSpace(_, _)
\* the first position from j on that holds no white space (\s* is greedy)
SkipSpace(t, j) == IF j <= Len(t) /\ IsSpace(t[j]) THEN SkipSpace(t, j + 1) ELSE j

\* path_pattern matched at position i: where group 1 starts, 0 for no match
PathGroupStart(t, i) ==
    IF i + 1 <= Len(t) /\ t[i] = "PIL" /\ t[i + 1] = ":<br>"
    THEN LET j == SkipSpace(t, i + 2)
         IN  IF j + 1 <= Len(t) /\ t[j] = "/" /\ t[j + 1] # "|" THEN j ELSE 0
    ELSE 0

\* group 1 of a match whose group starts at j: up to the next '|' or the end
PathGroup(t, j) ==
    IF \E e \in (j + 1)..Len(t) : t[e] = "|"
    THEN SubSeq(t, j, SetMin({e \in (j + 1)..Len(t) : t[e] = "|"}) - 1)
    ELSE SubSeq(t, j, Len(t))

\* re.search(path_pattern, t): found or None, and group(1) of the leftmost match
re_search(t) ==
    LET hits == {i \in 1..Len(t) : PathGroupStart(t, i) # 0}
    IN  IF hits = {} THEN [found |-> FALSE, group1 |-> <<>>]
        ELSE [found |-> TRUE, group1 |-> PathGroup(t, PathGroupStart(t, SetMin(hits)))]

\* __get_block_metadata without the strip() of the name
get_block_metadata_unstripped(markdown) ==
    IF re_search(markdown).found
    THEN [raised |-> "none",
          block_name |-> replace(replace(FirstLine(markdown), "#", ""), "/", "-"),
          block_path |-> re_search(markdown).group1]
    ELSE [raised |-> "AttributeError", block_name |-> <<>>, block_path |-> <<>>]

\* __get_block_metadata: raises AttributeError when re.search returns None
get_block_metadata(markdown) ==
    IF re_search(markdown).found
    THEN [raised |-> "none",
          block_name |-> strip(replace(replace(FirstLine(markdown), "#", ""), "/", "-")),
          block_path |-> re_search(markdown).group1]
    ELSE [raised |-> "AttributeError", block_name |-> <<>>, block_path |-> <<>>]

doc_dir == "documentation/"

\* json.dumps(metadata)
json_dumps(metadata) ==
    <<"{block_name:">> \o metadata.block_name \o <<",block_path:">>
        \o metadata.block_path \o <<"}">>

\* the name without the replace("/", ".")
FileNameWithSlashes(block_path, ext) ==
    <<doc_dir>> \o rstrip(block_path) \o <<ext>>

\* the name both writers open: doc_dir + block_path.replace("/", ".").rstrip() + ext
FileName(block_path, ext) ==
    <<doc_dir>> \o rstrip(replace(block_path, "/", ".")) \o <<ext>>

\* a write that leaves a file that is already there as it is
WriteFileKeepExisting(files, name, data, by) ==
    IF \E f \in files : f.name = name THEN files
    ELSE files \cup {[name |-> name, data |-> data, by |-> by]}

\* open(name, "w") and write: the file is created or replaced
WriteFile(files, name, data, by) ==
    {f \in files : f.name # name} \cup {[name |-> name, data |-> data, by |-> by]}

\* __save_block_metadata; openOk is whether open() succeeds
save_block_metadata(files, metadata, by, openOk) ==
    IF replace(metadata.block_path, "/", ".") # <<>>
    THEN IF openOk
         THEN [raised |-> "none",
               fs |-> WriteFile(files, FileName(metadata.block_path, ".json"),
                                json_dumps(metadata), by)]
         ELSE [raised |-> "OSError", fs |-> files]
    ELSE [raised |-> "ValueError", fs |-> files]

\* __save_md on the converter's output for the article; jsonOk and mdOk are
\* whether the two open() calls succeed.  ret is "true", "false" or "raise".
save_md(files, converted, by, jsonOk, mdOk) ==
    LET markdown == pretiffy_data(converted)
        metadata == get_block_metadata(markdown)
        saved    == save_block_metadata(files, metadata, by, jsonOk)
    IN  IF metadata.raised # "none"
        THEN [ret |-> "raise", exc |-> metadata.raised, fs |-> files, wfail |-> "none",
              stages |-> <<"converted", "sanitized">>]
        ELSE IF saved.raised # "none"
        THEN [ret |-> "raise", exc |-> saved.raised, fs |-> files,
              wfail |-> IF saved.raised = "OSError" THEN "json" ELSE "none",
              stages |-> <<"converted", "sanitized", "metadata">>]
        ELSE IF mdOk
        THEN [ret |-> "true", exc |-> "none", wfail |-> "none",
              fs |-> WriteFile(saved.fs, FileName(metadata.block_path, ".md"),
                               markdown, by),
              stages |-> <<"converted", "sanitized", "metadata", "json", "md">>]
        ELSE [ret |-> "false", exc |-> "none", fs |-> saved.fs, wfail |-> "md",
              stages |-> <<"converted", "sanitized", "metadata", "json">>]

PATH_IN_LIBRARY == <<"pil">>

\* set_blocked_libs: the value it assigns
set_blocked_libs == {<<"/", "interfaces", "/">>, <<"/", "ritm", "/">>}

\* __validate_page on article.text
validate_page(text, blocked) ==
    IF Contains(lower(text), PATH_IN_LIBRARY)
    THEN ~ \E blocked_type \in blocked : Contains(lower(text), blocked_type)
    ELSE FALSE

\* catch_and_convert after the body was read, with the validator skipped
after_read_unvalidated(files, page, by, blocked, jsonOk, mdOk) ==
    IF ~page.article
    THEN [ret |-> "raise", exc |-> "AttributeError", fs |-> files, wfail |-> "none",
          stages |-> <<>>]
    ELSE save_md(files, page.md, by, jsonOk, mdOk)

\* catch_and_convert from the body read to its return: soup.find gives None
\* for a page without the article, and None.text raises AttributeError
after_read(files, page, by, blocked, jsonOk, mdOk) ==
    IF ~page.article
    THEN [ret |-> "raise", exc |-> "AttributeError", fs |-> files, wfail |-> "none",
          stages |-> <<>>]
    ELSE IF validate_page(page.text, blocked)
    THEN LET r == save_md(files, page.md, by, jsonOk, mdOk)
         IN  [r EXCEPT !.stages = <<"validated">> \o r.stages]
    ELSE [ret |-> "false", exc |-> "none", fs |-> files, wfail |-> "none",
          stages |-> <<>>]

----------------------------------------------------------------------------
(* The server: the pages behind the links of the index page.  md is what     *)
(* convert_with_visitor returns for str(article), text is article.text.      *)

Site ==
    [h \in {"sum.html", "sum2.html", "gain.html", "can.html", "intro.html",
            "odd.html", "bare.html", "gone.html"} |->
        CASE h = "sum.html" ->
               [status |-> 200, article |-> TRUE,
                text |-> <<"Sum", "PIL", "/", "Basic", "/", "Sum">>,
                md |-> <<"#", " ", "Sum", "\n", "PIL", ":<br>", " ",
                         "/", "Basic", "/", "Sum", " ", "|", "x">>]
          [] h = "sum2.html" ->      \* another page of the same library path
               [status |-> 200, article |-> TRUE,
                text |-> <<"x", "pil", "/", "Basic", "/", "Sum">>,
                md |-> <<"#", "x", "\n", "PIL", ":<br>",
                         "/", "Basic", "/", "Sum", "|">>]
          [] h = "gain.html" ->      \* ends with an examples and a see-also section
               [status |-> 200, article |-> TRUE,
                text |-> <<"Gain", "PIL", "/", "Basic", "/", "Gain", "Ex", "x", "see">>,
                md |-> <<"#", " ", "Gain", "\n", "PIL", ":<br>", " ",
                         "/", "Basic", "/", "Gain", "|", "\n",
                         "#", "Ex", "x", "see", "x">>]
          [] h = "can.html" ->       \* a block of a blocked library
               [status |-> 200, article |-> TRUE,
                text |-> <<"Can", "PIL", "/", "Interfaces", "/", "Can">>,
                md |-> <<"#", " ", "Can", "\n", "PIL", ":<br>", " ",
                         "/", "Interfaces", "/", "Can", " ", "|">>]
          [] h = "intro.html" ->     \* an article that documents no block
               [status |-> 200, article |-> TRUE,
                text |-> <<"x", "x">>,
                md |-> <<"#", " ", "x", "\n", "x">>]
          [] h = "odd.html" ->       \* the marker is there, but not as the pattern wants it
               [status |-> 200, article |-> TRUE,
                text |-> <<"x", "PIL", "/", "Basic", "/", "x">>,
                md |-> <<"#", " ", "x", "\n", "PIL", " ", "/", "Basic", "/", "x">>]
          [] h = "bare.html" ->      \* status 200, no article.doc
               [status |-> 200, article |-> FALSE, text |-> <<>>, md |-> <<>>]
          [] h = "gone.html" ->
               [status |-> 404, article |-> FALSE, text |-> <<>>, md |-> <<>>]]

Hrefs == DOMAIN Site

\* Most a.xref.page anchors in the article of the index page.
MaxLinks == 2

LinkLists == UNION {[1..n -> Hrefs] : n \in 0..MaxLinks}

\* an index page whose article links the pages of l, each from an <a class="xref page">
\* of a top-level item of its first list
XrefAnchors(l) == [i \in 1..Len(l) |-> [href |-> l[i], xref |-> TRUE, place |-> "item"]]

RECURSIVE all_hrefs(_)
\* the href of every anchor, whatever its class
all_hrefs(anchors) ==
    IF anchors = <<>> THEN <<>>
    ELSE <<Head(anchors).href>> \o all_hrefs(Tail(anchors))

RECURSIVE xref_hrefs(_)
\* [link.get("href") for link in article.find_all("a", {"class": "xref page"})]:
\* find_all searches the whole article, in document order
xref_hrefs(anchors) ==
    IF anchors = <<>> THEN <<>>
    ELSE (IF Head(anchors).xref THEN <<Head(anchors).href>> ELSE <<>>)
         \o xref_hrefs(Tail(anchors))

NoSummary == [printed |-> FALSE, successes |-> 0, total |-> 0]

\* before __get_block_metadata and __save_md were called
NoMetadata == [raised |-> "none", block_name |-> <<>>, block_path |-> <<>>]

NoSaved == [ret |-> "none", exc |-> "none", fs |-> {}, wfail |-> "none", stages |-> <<>>]

----------------------------------------------------------------------------
(* The program: parser = EngeeBlockDocumentationDownloader();                *)
(* asyncio.run(parser.main())                                                *)

Tasks == 1..Len(outcome)

\* the page task i fetches
PageOf(i) == Site[raw_links[i]]

\* results.count(True)
CountTrue(results) == Cardinality({i \in DOMAIN results : results[i] = "true"})

\* after __init__: no link, no blocked library, main not yet started
Init ==
    /\ index \in {[status |-> s, article |-> a, anchors |-> XrefAnchors(l)] :
                      s \in {200, 404}, a \in BOOLEAN, l \in LinkLists}
    /\ raw_links = <<>>
    /\ blocked_libs = {}
    /\ parsed = "none"
    /\ mainPc = "start"
    /\ outcome = <<>>
    /\ exc = <<>>
    /\ stages = <<>>
    /\ wfail = <<>>
    /\ fs = {}
    /\ summary = NoSummary
    /\ markdown_text = <<>>
    /\ once = <<>>
    /\ twice = <<>>
    /\ tpc = "off"
    /\ md_in = <<>>
    /\ metadata_out = NoMetadata
    /\ saved_out = NoSaved
    /\ mpc = "off"

\* parse_links, and main dropping what it returns
parse_links ==
    /\ mainPc = "start"
    /\ raw_links' = IF index.status = 200 /\ index.article
                    THEN raw_links \o xref_hrefs(index.anchors)
                    ELSE raw_links
    /\ parsed' = IF index.status = 200 /\ index.article THEN "true" ELSE "false"
    /\ mainPc' = "parsed"
    /\ UNCHANGED <<index, blocked_libs, outcome, exc, stages, wfail, fs, summary,
                   tvars, mvars>>

\* main: one catch_and_convert per link, handed to asyncio.gather; each task
\* runs to its session.get and waits there
gather ==
    /\ mainPc = "parsed"
    /\ outcome' = [i \in 1..Len(raw_links) |-> "get"]
    /\ exc' = [i \in 1..Len(raw_links) |-> "none"]
    /\ stages' = [i \in 1..Len(raw_links) |-> <<>>]
    /\ wfail' = [i \in 1..Len(raw_links) |-> "none"]
    /\ mainPc' = "gather"
    /\ UNCHANGED <<index, raw_links, blocked_libs, parsed, fs, summary, tvars, mvars>>

\* catch_and_convert: the response arrives; any status but 200 returns False
respond(i) ==
    /\ mainPc = "gather"
    /\ outcome[i] = "get"
    /\ outcome' = [outcome EXCEPT ![i] = IF PageOf(i).status = 200 THEN "read" ELSE "false"]
    /\ stages' = [stages EXCEPT ![i] = IF PageOf(i).status = 200 THEN <<"fetched">> ELSE <<>>]
    /\ UNCHANGED <<index, raw_links, blocked_libs, parsed, mainPc, exc, wfail,
                   fs, summary, tvars, mvars>>

\* catch_and_convert: the body arrives, and the task runs to its end without
\* another suspension
catch_and_convert(i) ==
    /\ mainPc = "gather"
    /\ outcome[i] = "read"
    /\ \E jsonOk \in BOOLEAN, mdOk \in BOOLEAN :
          \E r \in {after_read(fs, PageOf(i), i, blocked_libs, jsonOk, mdOk)} :
              /\ outcome' = [outcome EXCEPT ![i] = IF r.ret = "raise" THEN "raised" ELSE r.ret]
              /\ exc' = [exc EXCEPT ![i] = r.exc]
              /\ stages' = [stages EXCEPT ![i] = stages[i] \o r.stages]
              /\ wfail' = [wfail EXCEPT ![i] = r.wfail]
              /\ fs' = r.fs
    /\ UNCHANGED <<index, raw_links, blocked_libs, parsed, mainPc, summary, tvars, mvars>>

\* main: gather returned the results of all tasks; the two print calls
report ==
    /\ mainPc = "gather"
    /\ \A i \in Tasks : outcome[i] \in {"true", "false"}
    /\ summary' = [printed |-> TRUE, successes |-> CountTrue(outcome), total |-> Len(outcome)]
    /\ mainPc' = "done"
    /\ UNCHANGED <<index, raw_links, blocked_libs, parsed, outcome, exc, stages, wfail,
                   fs, tvars, mvars>>

\* main: gather (return_exceptions=False) re-raises the exception of a task;
\* it leaves main, and asyncio.run cancels the tasks that are still waiting
propagate ==
    /\ mainPc = "gather"
    /\ \E i \in Tasks : outcome[i] = "raised"
    /\ outcome' = [i \in Tasks |-> IF outcome[i] \in {"get", "read"}
                                   THEN "cancelled" ELSE outcome[i]]
    /\ mainPc' = "crashed"
    /\ UNCHANGED <<index, raw_links, blocked_libs, parsed, exc, stages, wfail, fs,
                   summary, tvars, mvars>>

Next ==
    \/ parse_links
    \/ gather
    \/ \E i \in Tasks : respond(i)
    \/ \E i \in Tasks : catch_and_convert(i)
    \/ report
    \/ propagate

Spec == Init /\ [][Next]_vars

----------------------------------------------------------------------------
(* The sanitizer on its own: every text up to MaxLen, sanitized twice *)

TextInit ==
    /\ markdown_text \in Texts
    /\ once = <<>>
    /\ twice = <<>>
    /\ tpc = "input"
    /\ index = [status |-> 404, article |-> FALSE, anchors |-> <<>>]
    /\ raw_links = <<>>
    /\ blocked_libs = {}
    /\ parsed = "none"
    /\ mainPc = "off"
    /\ outcome = <<>>
    /\ exc = <<>>
    /\ stages = <<>>
    /\ wfail = <<>>
    /\ fs = {}
    /\ summary = NoSummary
    /\ md_in = <<>>
    /\ metadata_out = NoMetadata
    /\ saved_out = NoSaved
    /\ mpc = "off"

Sanitize ==
    /\ tpc = "input"
    /\ once' = pretiffy_data(markdown_text)
    /\ tpc' = "once"
    /\ UNCHANGED <<markdown_text, twice, ovars, mvars>>

SanitizeAgain ==
    /\ tpc = "once"
    /\ twice' = pretiffy_data(once)
    /\ tpc' = "twice"
    /\ UNCHANGED <<markdown_text, once, ovars, mvars>>

TextNext == Sanitize \/ SanitizeAgain

SpecText == TextInit /\ [][TextNext]_vars

----------------------------------------------------------------------------
(* The extractor and the writer on their own: a first line drawn from        *)
(* HeadAlphabet up to MaxHead, followed by one of Tails                      *)

\* Longest first line drawn as an input of __get_block_metadata.
MaxHead == 3

HeadAlphabet == {"#", "/", " ", "x"}

Heads == UNION {[1..n -> HeadAlphabet] : n \in 0..MaxHead}

Tails ==
    { <<>>,
      <<"\n", "x">>,
      <<"\n", "PIL", ":<br>", " ", "/", "Basic", "/", "Sum", " ", "|", "x">>,
      <<"PIL", ":<br>", "/", "x">>,
      <<"\n", "PIL", ":<br>", "\n", "/", "x", "\n", "|">>,
      <<"\n", "PIL", ":<br>", "/", "|">>,
      <<"\n", "PIL", ":<br>", "|", "/", "x">>,
      <<"\n", "ex", "PIL", ":<br>", "/", "x", "|">>,
      <<"\n", "PIL", ":<br>", "/", "x", "|", "PIL", ":<br>", "/", "Sum", "|">> }

MetaInit ==
    /\ md_in \in {h \o t : h \in Heads, t \in Tails}
    /\ metadata_out = NoMetadata
    /\ saved_out = NoSaved
    /\ mpc = "input"
    /\ markdown_text = <<>>
    /\ once = <<>>
    /\ twice = <<>>
    /\ tpc = "off"
    /\ index = [status |-> 404, article |-> FALSE, anchors |-> <<>>]
    /\ raw_links = <<>>
    /\ blocked_libs = {}
    /\ parsed = "none"
    /\ mainPc = "off"
    /\ outcome = <<>>
    /\ exc = <<>>
    /\ stages = <<>>
    /\ wfail = <<>>
    /\ fs = {}
    /\ summary = NoSummary

Extract ==
    /\ mpc = "input"
    /\ metadata_out' = get_block_metadata(md_in)
    /\ mpc' = "extracted"
    /\ UNCHANGED <<md_in, saved_out, tvars, ovars>>

Save ==
    /\ mpc = "extracted"
    /\ \E jsonOk \in BOOLEAN, mdOk \in BOOLEAN :
          saved_out' = save_md({}, md_in, 1, jsonOk, mdOk)
    /\ mpc' = "saved"
    /\ UNCHANGED <<md_in, metadata_out, tvars, ovars>>

MetaNext == Extract \/ Save

SpecMeta == MetaInit /\ [][MetaNext]_vars

----------------------------------------------------------------------------
(* The link extractor on its own: an index page whose first article holds up *)
(* to MaxAnchors anchors.  place is where the anchor stands: "item" in a     *)
(* top-level item of the first list of the article, "nested" deeper in that  *)
(* list, "outside" elsewhere in the article.  xref is whether its class is   *)
(* "xref page".                                                              *)

\* Most anchors in the article of the index page drawn for parse_links.
MaxAnchors == 2

Anchors == [href : {"sum.html", "gain.html"}, xref : BOOLEAN,
            place : {"item", "nested", "outside"}]

AnchorLists == UNION {[1..n -> Anchors] : n \in 0..MaxAnchors}

LinksInit ==
    /\ index \in [status : {200, 404}, article : BOOLEAN, anchors : AnchorLists]
    /\ raw_links = <<>>
    /\ blocked_libs = {}
    /\ parsed = "none"
    /\ mainPc = "start"
    /\ outcome = <<>>
    /\ exc = <<>>
    /\ stages = <<>>
    /\ wfail = <<>>
    /\ fs = {}
    /\ summary = NoSummary
    /\ markdown_text = <<>>
    /\ once = <<>>
    /\ twice = <<>>
    /\ tpc = "off"
    /\ md_in = <<>>
    /\ metadata_out = NoMetadata
    /\ saved_out = NoSaved
    /\ mpc = "off"

LinksNext == parse_links

SpecLinks == LinksInit /\ [][LinksNext]_vars

----------------------------------------------------------------------------
(* Properties of the sanitizer, under SpecText *)

ADDITIONAL == {TARGET_WORDS[1], TARGET_WORDS[2]}
EXAMPLES   == {TARGET_WORDS[3], TARGET_WORDS[4]}
SEE_ALSO   == {TARGET_WORDS[5], TARGET_WORDS[6]}

\* the marker phrases that occur in t when letter case is ignored
PhrasesIn(t) == {k \in 1..Len(TARGET_WORDS) : Contains(lower(t), TARGET_WORDS[k])}

\* the cut the stated rule asks for: the last occurrence, letter case ignored,
\* of the first phrase of the list that occurs at all
StatedCut(t) == Prefix(t, rfind(lower(t), TARGET_WORDS[SetMin(PhrasesIn(t))]))

\* an examples phrase occurs, and a see-also phrase occurs after it
ExamplesThenSeeAlso(t) ==
    \E e \in EXAMPLES, s \in SEE_ALSO :
        \E i \in Occurrences(lower(t), e), j \in Occurrences(lower(t), s) : i < j

\* C8 (as stated; violated): a text that holds an examples phrase and a later
\* see-also phrase, both found with letter case ignored, and no phrase of
\* higher priority, is cut at the last occurrence of the examples phrase.
C8_CutAtExamples ==
    (/\ tpc \in {"once", "twice"}
     /\ ExamplesThenSeeAlso(re_sub(markdown_text))
     /\ \A a \in ADDITIONAL : ~Contains(lower(re_sub(markdown_text)), a))
    => once = StatedCut(re_sub(markdown_text))

\* C9 (as stated; violated): after the SVG strip, a text in which a marker
\* phrase occurs, letter case ignored, is returned cut at the last occurrence
\* of the first such phrase of the list, and so strictly shorter; a text in
\* which none occurs is returned as it is.
C9_CaseInsensitiveTruncation ==
    tpc \in {"once", "twice"} =>
        IF PhrasesIn(re_sub(markdown_text)) # {}
        THEN /\ once = StatedCut(re_sub(markdown_text))
             /\ Len(once) < Len(re_sub(markdown_text))
        ELSE once = re_sub(markdown_text)

\* no marker phrase occurs in t in the spelling of the list
NoListedPhrase(t) == \A k \in 1..Len(TARGET_WORDS) : ~Contains(t, TARGET_WORDS[k])

\* the SVG pattern matches nowhere in t
NoSvgPayload(t) == \A i \in 1..Len(t) : SvgMatchEnd(t, i) = 0

\* C10 (as stated; violated): a second pass of the sanitizer changes nothing.
C10_Idempotent == tpc = "twice" => twice = once

\* C10 (amended): a second pass changes nothing when the output of the first
\* holds no SVG payload and no marker phrase in the spelling of the list.
C10_IdempotentOnCleanOutput ==
    (tpc = "twice" /\ NoListedPhrase(once) /\ NoSvgPayload(once)) => twice = once

\* C10: the first pass cut the text, what it left holds a phrase in another
\* letter case only, and the second pass returned it as it was
C10_Witness ==
    /\ tpc = "twice"
    /\ Len(once) < Len(markdown_text)
    /\ NoListedPhrase(once)
    /\ NoSvgPayload(once)
    /\ PhrasesIn(once) # {}
    /\ twice = once

----------------------------------------------------------------------------
(* Properties of a run of the program, under Spec *)

\* main has returned or has been left by an exception
Over == mainPc \in {"done", "crashed"}

Ended(i) == outcome[i] \in {"true", "false", "raised", "cancelled"}

FilesBy(i) == {f \in fs : f.by = i}

\* the summary of a completed crawl
Reported ==
    /\ mainPc = "done"
    /\ \A i \in Tasks : outcome[i] \in {"true", "false"}
    /\ summary = [printed |-> TRUE, successes |-> CountTrue(outcome),
                  total |-> Len(raw_links)]

\* the page of task i has the article, and its text holds "path in library"
IsBlockDoc(i) ==
    /\ PageOf(i).status = 200
    /\ PageOf(i).article
    /\ Contains(lower(PageOf(i).text), PATH_IN_LIBRARY)

\* the page of task i passed the validator, and its Markdown has no
\* library-path marker the extractor's pattern matches
DataError(i) ==
    /\ IsBlockDoc(i)
    /\ validate_page(PageOf(i).text, blocked_libs)
    /\ ~re_search(PageOf(i).md).found

\* C1 (as stated; violated): in a finished run over a page with a data error
\* and another page, in which nothing else went wrong, the task of the page
\* with the data error ended with false, every other task ended with its own
\* true or false, and the run reported successes and total.
C1_DataErrorContained ==
    (/\ Over
     /\ \E i \in Tasks, j \in Tasks : DataError(i) /\ ~DataError(j)
     /\ \A j \in Tasks : exc[j] # "none" => DataError(j))
    => /\ \A i \in Tasks : DataError(i) => outcome[i] = "false"
       /\ Reported

\* C2 (as stated; violated): when the index fetch does not return 200, no
\* page task is dispatched, and the run ends as a failure, without the
\* summary of a completed crawl.
C2_IndexFetchFatal ==
    index.status # 200 =>
        /\ Tasks = {}
        /\ ~summary.printed
        /\ Over => mainPc = "crashed"

\* the page of task i is the documentation of a block of a blocked library
IsBlockedPage(i) ==
    /\ IsBlockDoc(i)
    /\ \E blocked_type \in set_blocked_libs :
          Contains(lower(PageOf(i).text), blocked_type)

\* C3 (as stated; violated): the task of a page of a blocked library, when
\* it has ended and was not cancelled and no write of it failed, has run with
\* the configured, non-empty set of blocked libraries, has returned false and
\* has written no file.
C3_BlockedNeverPersisted ==
    \A i \in Tasks :
        (IsBlockedPage(i) /\ Ended(i) /\ outcome[i] # "cancelled" /\ wfail[i] = "none") =>
            /\ blocked_libs = set_blocked_libs
            /\ blocked_libs # {}
            /\ outcome[i] = "false"
            /\ FilesBy(i) = {}

\* C4 (as stated; violated): in a finished run in which only file writes
\* went wrong, each task with a failed write returned false, and the run
\* completed with every task at its own true or false.
C4_WriteFailureLocal ==
    (/\ Over
     /\ \E i \in Tasks : wfail[i] # "none"
     /\ \A j \in Tasks : exc[j] # "none" => wfail[j] # "none")
    => /\ \A i \in Tasks : wfail[i] # "none" => (outcome[i] = "false" /\ exc[i] = "none")
       /\ Reported

\* the page of task i came with status 200 and has no documentation article
NoArticle(i) == PageOf(i).status = 200 /\ ~PageOf(i).article

\* C5 (as stated; violated): the task of a page without the article, once it
\* has ended, has returned false, written no file and raised nothing.
C5_NoArticleRejected ==
    \A i \in Tasks :
        (NoArticle(i) /\ Ended(i) /\ outcome[i] # "cancelled") =>
            /\ outcome[i] = "false"
            /\ exc[i] = "none"
            /\ FilesBy(i) = {}

\* C6 (as stated; violated): the summary is printed only when every task has
\* ended with true or false, its counts are those of the tasks, and a run in
\* which every fetch was answered does not end without it.
C6_WaitAllThenReport ==
    /\ summary.printed =>
          /\ \A i \in Tasks : outcome[i] \in {"true", "false"}
          /\ summary.total = Len(raw_links)
          /\ summary.successes = CountTrue(outcome)
          /\ 0 <= summary.successes /\ summary.successes <= summary.total
    /\ (Over /\ \A i \in Tasks : outcome[i] # "get") => summary.printed

AllStages == <<"fetched", "validated", "converted", "sanitized", "metadata", "json", "md">>

\* the validator turned the page of task i down
Rejected(i) ==
    /\ PageOf(i).status = 200
    /\ PageOf(i).article
    /\ ~validate_page(PageOf(i).text, blocked_libs)

\* C7: a file was written only by a task whose fetch returned 200 and whose
\* page the validator accepted, fetch first; a task whose page came with
\* another status or was turned down by the validator has, once ended,
\* returned false and written nothing; a task that returned true went through
\* every stage, in order.
C7_StageGating ==
    /\ \A f \in fs :
          /\ PageOf(f.by).status = 200
          /\ PageOf(f.by).article
          /\ validate_page(PageOf(f.by).text, blocked_libs)
          /\ Len(stages[f.by]) >= 2
          /\ SubSeq(stages[f.by], 1, 2) = <<"fetched", "validated">>
    /\ \A i \in Tasks :
          ((PageOf(i).status # 200 \/ Rejected(i)) /\ Ended(i) /\ outcome[i] # "cancelled")
          => (outcome[i] = "false" /\ FilesBy(i) = {} /\ exc[i] = "none")
    /\ \A i \in Tasks : outcome[i] = "true" => stages[i] = AllStages

\* C7: one task returned true and its two files are there, another returned
\* false for a status other than 200, or for the validator's rejection
C7_Witness ==
    \E i \in Tasks, j \in Tasks :
        /\ outcome[i] = "true"
        /\ Cardinality(FilesBy(i)) = 2
        /\ outcome[j] = "false"
        /\ Rejected(j)
        /\ FilesBy(j) = {}

----------------------------------------------------------------------------
(* Properties of the extractor and the writer, under SpecMeta *)

\* the text before the first line break
HeadingOf(t) ==
    SubSeq(t, 1, CHOOSE k \in 0..Len(t) :
                    /\ \A i \in 1..k : t[i] # "\n"
                    /\ k = Len(t) \/ t[k + 1] = "\n")

NotHash(c) == c # "#"

NotSlash(c) == c # "/"

\* every c turned into d
Mapped(t, c, d) == [i \in 1..Len(t) |-> IF t[i] = c THEN d ELSE t[i]]

\* r is t without the white space at its two ends
IsTrimOf(r, t) ==
    \E i \in 1..(Len(t) + 1), j \in 0..Len(t) :
        /\ r = SubSeq(t, i, j)
        /\ \A k \in 1..(i - 1) : IsSpace(t[k])
        /\ \A k \in (j + 1)..Len(t) : IsSpace(t[k])
        /\ r = <<>> \/ (~IsSpace(r[1]) /\ ~IsSpace(r[Len(r)]))

\* r is t without the white space at its end
IsRightTrimOf(r, t) ==
    \E j \in 0..Len(t) :
        /\ r = SubSeq(t, 1, j)
        /\ \A k \in (j + 1)..Len(t) : IsSpace(t[k])
        /\ r = <<>> \/ ~IsSpace(r[Len(r)])

\* the marker "Path in library:<br>" stands at i, only white space separates
\* it from the '/' at j, and j..e runs up to the next '|' or the end of t
MarkerAt(t, i, j, e) ==
    /\ i + 1 <= Len(t) /\ t[i] = "PIL" /\ t[i + 1] = ":<br>"
    /\ i + 2 <= j /\ j < e /\ e <= Len(t)
    /\ \A k \in (i + 2)..(j - 1) : IsSpace(t[k])
    /\ t[j] = "/"
    /\ \A k \in (j + 1)..e : t[k] # "|"
    /\ e = Len(t) \/ t[e + 1] = "|"

HasMarker(t) == \E i \in 1..Len(t), j \in 1..Len(t), e \in 1..Len(t) : MarkerAt(t, i, j, e)

\* p is the sequence after the first marker of t, up to the next '|'
IsCapturedPath(t, p) ==
    \E i \in 1..Len(t), j \in 1..Len(t), e \in 1..Len(t) :
        /\ MarkerAt(t, i, j, e)
        /\ p = SubSeq(t, j, e)
        /\ \A i2 \in 1..(i - 1) :
              ~ \E j2 \in 1..Len(t), e2 \in 1..Len(t) : MarkerAt(t, i2, j2, e2)

Extracted == mpc \in {"extracted", "saved"}

\* C11 (as stated; violated): the name extracted from a text is its first
\* line with every '#' and every '/' removed and the white space at both ends
\* trimmed, and the extraction of the empty text fails.
C11_SlashRemoved ==
    Extracted =>
        /\ metadata_out.raised = "none" =>
              IsTrimOf(metadata_out.block_name,
                       SelectSeq(SelectSeq(HeadingOf(md_in), NotHash), NotSlash))
        /\ md_in = <<>> => metadata_out.raised # "none"

\* C11 (amended): the name is the first line with every '#' removed and every
\* '/' turned into '-', trimmed; the extraction fails, with the
\* AttributeError of the path search, exactly when the text has no library
\* path marker, as the empty text has none.
C11_SlashToDash ==
    Extracted =>
        /\ metadata_out.raised = "none" =>
              IsTrimOf(metadata_out.block_name,
                       Mapped(SelectSeq(HeadingOf(md_in), NotHash), "/", "-"))
        /\ (metadata_out.raised = "none") = HasMarker(md_in)
        /\ metadata_out.raised \in {"none", "AttributeError"}
        /\ md_in = <<>> => metadata_out.raised = "AttributeError"

\* C11: a first line with '#', '/' and white space at its end was extracted
C11_Witness ==
    /\ Extracted
    /\ metadata_out.raised = "none"
    /\ \E i \in 1..Len(HeadingOf(md_in)) : HeadingOf(md_in)[i] = "/"
    /\ \E i \in 1..Len(HeadingOf(md_in)) : HeadingOf(md_in)[i] = "#"
    /\ HeadingOf(md_in) # <<>> /\ IsSpace(HeadingOf(md_in)[Len(HeadingOf(md_in))])
    /\ \E i \in 1..Len(metadata_out.block_name) : metadata_out.block_name[i] = "-"

\* C12: when a page is persisted, the path that reached the writer is the
\* sequence after the first library-path marker of the sanitized Markdown up
\* to the next '|', it is not empty, and the two files written are
\* documentation/<stem>.json, holding that path, and documentation/<stem>.md,
\* where <stem> is the path with every '/' turned into '.' and the white space
\* at its end dropped, so that it holds no '/'.
C12_PathToFileName ==
    (mpc = "saved" /\ saved_out.ret = "true") =>
        \E json \in saved_out.fs, md \in saved_out.fs :
            /\ saved_out.fs = {json, md}
            /\ Len(json.name) >= 2 /\ json.name[1] = doc_dir
            /\ json.name[Len(json.name)] = ".json"
            /\ md.name = SubSeq(json.name, 1, Len(json.name) - 1) \o <<".md">>
            /\ \A k \in 2..(Len(json.name) - 1) : json.name[k] # "/"
            /\ \E p \in {SubSeq(md.data, j, e) : j \in 1..Len(md.data), e \in 1..Len(md.data)} :
                  /\ p # <<>>
                  /\ IsCapturedPath(md.data, p)
                  /\ IsRightTrimOf(SubSeq(json.name, 2, Len(json.name) - 1),
                                   Mapped(p, "/", "."))
                  /\ \E n \in {SubSeq(json.data, 2, k) : k \in 1..Len(json.data)} :
                        json.data = <<"{block_name:">> \o n \o <<",block_path:">>
                                        \o p \o <<"}">>

\* C12: a path of two levels, with white space at its end, was persisted
C12_Witness ==
    /\ mpc = "saved"
    /\ saved_out.ret = "true"
    /\ \E f \in saved_out.fs :
          f.name = <<doc_dir, ".", "Basic", ".", "Sum", ".json">>
    /\ metadata_out.block_path = <<"/", "Basic", "/", "Sum", " ">>

----------------------------------------------------------------------------
(* Properties of the link extractor, under SpecLinks *)

IsXref(a) == a.xref

IsXrefItem(a) == a.xref /\ a.place = "item"

HrefsOf(anchors) == [i \in 1..Len(anchors) |-> anchors[i].href]

IndexRead == mainPc = "parsed" /\ index.status = 200 /\ index.article

\* C13 (as stated; violated): the links collected from the article are those
\* of the anchors of the top-level items of its first list, in document
\* order, and of no anchor nested deeper or standing elsewhere.
C13_TopLevelItemsOnly ==
    IndexRead => raw_links = HrefsOf(SelectSeq(index.anchors, IsXrefItem))

\* C13 (amended): the links collected are those of every anchor of class
\* "xref page" of the article, wherever it stands, in document order, and of
\* no other anchor; an index page without status 200 or without the article
\* gives no link.
C13_EveryXrefAnchor ==
    mainPc = "parsed" =>
        IF index.status = 200 /\ index.article
        THEN raw_links = HrefsOf(SelectSeq(index.anchors, IsXref)) /\ parsed = "true"
        ELSE raw_links = <<>> /\ parsed = "false"

\* C13: an anchor outside the top-level items was collected, and an anchor of
\* another class was not
C13_Witness ==
    /\ IndexRead
    /\ \E i \in 1..Len(index.anchors), j \in 1..Len(index.anchors) :
          /\ index.anchors[i].xref /\ index.anchors[i].place # "item"
          /\ ~index.anchors[j].xref
    /\ Len(raw_links) = 1

----------------------------------------------------------------------------
(* Properties of the links, the files and their writers in a run, under Spec *)

\* the response to the session.get of task i has arrived
Answered(i) == outcome[i] \in {"read", "true", "false", "raised"}

\* C14 (as stated; violated): one task is launched per collected link, and no
\* page URL is fetched by two tasks of a run, also when the index page links
\* the same target from several anchors.
C14_EachLinkOnce ==
    /\ mainPc \in {"gather", "done", "crashed"} => Len(outcome) = Len(raw_links)
    /\ \A i \in Tasks, j \in Tasks :
          (i # j /\ Answered(i) /\ Answered(j)) => raw_links[i] # raw_links[j]

Stem(f) == SubSeq(f.name, 1, Len(f.name) - 1)

Ext(f) == f.name[Len(f.name)]

\* C15 (as stated; violated): once a task has returned, the .json of a stem is
\* there exactly when the .md of that stem is, and a task that returned false
\* has left no file.
C15_ArtifactPairing ==
    (\E i \in Tasks : outcome[i] \in {"true", "false"}) =>
        /\ \A f \in fs : \E g \in fs : Stem(g) = Stem(f) /\ Ext(g) # Ext(f)
        /\ \A i \in Tasks : outcome[i] = "false" => FilesBy(i) = {}

\* what the task of page h writes into its file with extension ext
DataOf(h, ext) ==
    IF ext = ".md" THEN pretiffy_data(Site[h].md)
    ELSE json_dumps(get_block_metadata(pretiffy_data(Site[h].md)))

\* the files of one stem come from one task, and hold what its page gives
OneWriterPerStem ==
    (\A i \in Tasks : wfail[i] = "none") =>
        \A f \in fs :
            /\ f.data = DataOf(raw_links[f.by], Ext(f))
            /\ \A g \in fs : Stem(g) = Stem(f) => g.by = f.by

\* the step in which task i persists its page leaves both files of its stem
\* as its own
LastWriterWins ==
    \A i \in Tasks :
        (outcome[i] = "read" /\ outcome'[i] = "true") =>
            \E f \in fs', g \in fs' :
                /\ f.by = i /\ g.by = i
                /\ Ext(f) = ".json" /\ Ext(g) = ".md"
                /\ Stem(f) = Stem(g)

\* C16: when no write fails, under every interleaving the .json and the .md of
\* a stem come from the same page, never one from each of two pages of the
\* same path, and that page is the one whose task persisted last.
C16_CollisionAtomic == [](OneWriterPerStem) /\ [][LastWriterWins]_vars

\* C16: two different pages of the same path were both persisted, the first
\* task after the second, and both files are the first task's
C16_Witness ==
    /\ Len(outcome) = 2
    /\ outcome[1] = "true" /\ outcome[2] = "true"
    /\ raw_links[1] # raw_links[2]
    /\ Cardinality(fs) = 2
    /\ \A f \in fs : f.by = 1

====
